---- MODULE Spec2Model ----
(***************************************************************************)
(* binpack_rs: histogram construction, first-fit bin packing and the       *)
(* composer / nemo / iterator fill stage, as a state machine.              *)
(*                                                                         *)
(* Option<u32> values are modelled as sequences: None is <<>> and Some(x)  *)
(* is <<x>>.  Maps (HashMap, BTreeMap) are functions whose DOMAIN is the   *)
(* set of keys present.  Bin indices and pack indices are 0-based as in    *)
(* the source; TLA+ sequences are 1-based, so res[bin_idx + 1] is the bin. *)
(***************************************************************************)
EXTENDS Integers, Sequences, FiniteSets, Bags, TLC

VARIABLES
    pc,                 \* position of the invocation
    pack_size,          \* target_pack_size / pack_size
    packing_algorithm,  \* PackingAlgo selected by the caller
    seqlens,            \* the argument of PackingAlgo::pack
    work,               \* the list first_fit iterates (after sort / shuffle)
    idx,                \* first_fit: number of lengths already placed
    res,                \* first_fit: the packed bins
    capacity_map,       \* first_fit: remaining capacity -> bin indices
    assignments,        \* the value returned by PackingAlgo::pack
    dataset,            \* examples: field name -> list of sequences
    return_format,      \* "composer", "nemo" or "iterator"
    pad_id,             \* Option<u32>
    options,            \* Option<NemoOptions>
    sequences,          \* Histogram: length -> list of entries
    seq_lens,           \* per-length counts returned by create_hist
    ifile_handles,      \* IFileHandles: length -> (input_ids, position_ids)
    oindex,             \* number of bins the fill loop has processed
    input_ids,          \* fill: pack index -> token buffer
    positions_ids,      \* fill: pack index -> position buffer
    loss_mask,          \* fill (nemo): pack index -> loss mask
    seq_start_id,       \* fill (nemo): pack index -> sub-sequence offsets
    result,             \* the ReturnFormat value handed to the caller
    panic,              \* message of the panic that ended the invocation, or ""
    mask_call,          \* arguments of a direct create_loss_mask call
    mask_ret,           \* what that call returned
    yielded,            \* PyReturnIter: what each __next__ call returned
    builder,            \* NemoOptionsBuilder handed to build
    error               \* message of the PyValueError build returned, or ""

cfgVars == <<pack_size, packing_algorithm, return_format, pad_id, options, dataset>>
packVars == <<seqlens, work, idx, res, capacity_map, assignments>>
histVars == <<sequences, seq_lens>>
fillVars == <<ifile_handles, oindex, input_ids, positions_ids, loss_mask,
              seq_start_id, result>>

maskVars == <<mask_call, mask_ret>>

pyVars == <<yielded, builder, error>>

vars == <<pc, cfgVars, packVars, histVars, fillVars, panic, maskVars, pyVars>>

(***************************************************************************)
(* Bounds of the model.                                                    *)
(***************************************************************************)
MaxPackSize == 4
MaxItems == 4
MaxSeqs == 2
MaxToken == 3
MaxMaskLen == 4
MaxNextCalls == 4
MaxFillPackSize == 2
MaxCompareLen == 3
MaxCompareItems == 6
MaxComparePackSize == 7

(***************************************************************************)
(* Generic helpers.                                                        *)
(***************************************************************************)
None == <<>>
Some(x) == <<x>>

Min(S) == CHOOSE x \in S : \A y \in S : x <= y

RECURSIVE SumSeq(_)
SumSeq(s) == IF s = <<>> THEN 0 ELSE Head(s) + SumSeq(Tail(s))

RECURSIVE Flatten(_)
Flatten(ss) == IF ss = <<>> THEN <<>> ELSE Head(ss) \o Flatten(Tail(ss))

RECURSIVE SeqToBag(_)
SeqToBag(s) == IF s = <<>> THEN EmptyBag ELSE SetToBag({Head(s)}) (+) SeqToBag(Tail(s))

PermutationsOf(s) ==
    {[i \in 1..Len(s) |-> s[p[i]]] : p \in Permutations(1..Len(s))}

RECURSIVE SetToSeq(_)
SetToSeq(S) == IF S = {} THEN <<>>
               ELSE LET x == CHOOSE y \in S : TRUE IN <<x>> \o SetToSeq(S \ {x})

SeqsUpTo(S, n) == UNION {[1..k -> S] : k \in 0..n}

EmptyMap == <<>>
MapPut(f, k, v) == [x \in (DOMAIN f) \cup {k} |-> IF x = k THEN v ELSE f[x]]
MapRemove(f, k) == [x \in (DOMAIN f) \ {k} |-> f[x]]
MapGetOrDefault(f, k) == IF k \in DOMAIN f THEN f[k] ELSE <<>>

(***************************************************************************)
(* packing.rs                                                              *)
(***************************************************************************)
PackingAlgo == {"FirstFit", "FirstFitShuffle", "FirstFitDecreasing"}

\* capacity_map.range_mut(s..): the keys >= s (iterated in ascending order)
range_from_all(cm, s) == DOMAIN cm
range_from(cm, s) == {c \in DOMAIN cm : c >= s}

\* the loop over the range: the first (smallest) key whose list is non-empty
find_bin(cm, s) ==
    LET cand == {c \in range_from(cm, s) : cm[c] # <<>>}
    IN  IF cand = {} THEN None
        ELSE LET capacity == Min(cand)
             IN  Some([bin_idx |-> cm[capacity][1], capacity |-> capacity])

\* the "bin found" branch: move the bin to its new capacity entry
place_in_bin_dup(st, s, bin_idx, old_capacity) ==
    LET indices == Tail(st.capacity_map[old_capacity])
        cm1 == IF indices = <<>> THEN MapRemove(st.capacity_map, old_capacity)
               ELSE MapPut(st.capacity_map, old_capacity, indices)
        new_capacity == old_capacity - s
    IN  [res |-> [st.res EXCEPT ![bin_idx + 1] = Append(Append(@, s), s)],
         capacity_map |-> MapPut(cm1, new_capacity,
                              Append(MapGetOrDefault(cm1, new_capacity), bin_idx))]
place_in_bin(st, s, bin_idx, old_capacity) ==
    LET indices == Tail(st.capacity_map[old_capacity])
        cm1 == IF indices = <<>> THEN MapRemove(st.capacity_map, old_capacity)
               ELSE MapPut(st.capacity_map, old_capacity, indices)
        new_capacity == old_capacity - s
    IN  [res |-> [st.res EXCEPT ![bin_idx + 1] = Append(@, s)],
         capacity_map |-> MapPut(cm1, new_capacity,
                              Append(MapGetOrDefault(cm1, new_capacity), bin_idx))]

\* the "create a new bin" branch
new_bin(st, s, psize) ==
    LET new_bin_idx == Len(st.res)
        remaining == psize - s
    IN  [res |-> Append(st.res, <<s>>),
         capacity_map |-> MapPut(st.capacity_map, remaining,
                              Append(MapGetOrDefault(st.capacity_map, remaining),
                                     new_bin_idx))]

\* one iteration of `for s in seqlens`
first_fit_step(st, s, psize) ==
    LET bin_to_update == find_bin(st.capacity_map, s)
    IN  IF bin_to_update # None
        THEN place_in_bin(st, s, bin_to_update[1].bin_idx, bin_to_update[1].capacity)
        ELSE new_bin(st, s, psize)

RECURSIVE first_fit_loop(_, _, _)
first_fit_loop(st, lens, psize) ==
    IF lens = <<>> THEN st
    ELSE first_fit_loop(first_fit_step(st, Head(lens), psize), Tail(lens), psize)

first_fit(lens, psize) ==
    first_fit_loop([res |-> <<>>, capacity_map |-> EmptyMap], lens, psize).res

\* seqlens.sort_by(|a, b| b.cmp(a))
sort_keep(s) == s
RECURSIVE InsertAsc(_, _)
InsertAsc(x, s) ==
    IF s = <<>> THEN <<x>>
    ELSE IF Head(s) <= x THEN <<Head(s)>> \o InsertAsc(x, Tail(s))
         ELSE <<x>> \o s
RECURSIVE sort_asc(_)
sort_asc(s) == IF s = <<>> THEN <<>> ELSE InsertAsc(Head(s), sort_asc(Tail(s)))
RECURSIVE InsertDesc(_, _)
InsertDesc(x, s) ==
    IF s = <<>> THEN <<x>>
    ELSE IF Head(s) >= x THEN <<Head(s)>> \o InsertDesc(x, Tail(s))
         ELSE <<x>> \o s
RECURSIVE sort_desc(_)
sort_desc(s) == IF s = <<>> THEN <<>> ELSE InsertDesc(Head(s), sort_desc(Tail(s)))

first_fit_decreasing(lens, psize) == first_fit(sort_desc(lens), psize)

\* seqlens.shuffle(&mut rng): any permutation
shuffle(s) == PermutationsOf(s)

(***************************************************************************)
(* PackingAlgo::pack, step by step.                                        *)
(***************************************************************************)
StartFirstFit(lens) ==
    /\ work' = lens
    /\ idx' = 0
    /\ res' = <<>>
    /\ capacity_map' = EmptyMap
    /\ pc' = "first_fit"

PackFirstFit ==
    /\ pc = "pack"
    /\ packing_algorithm = "FirstFit"
    /\ StartFirstFit(seqlens)
    /\ UNCHANGED <<pyVars, maskVars, cfgVars, histVars, fillVars, panic, seqlens, assignments>>

PackFirstFitDecreasing ==
    /\ pc = "pack"
    /\ packing_algorithm = "FirstFitDecreasing"
    /\ StartFirstFit(sort_desc(seqlens))
    /\ UNCHANGED <<pyVars, maskVars, cfgVars, histVars, fillVars, panic, seqlens, assignments>>

PackFirstFitShuffle ==
    /\ pc = "pack"
    /\ packing_algorithm = "FirstFitShuffle"
    /\ \E shuffled \in shuffle(seqlens) : StartFirstFit(shuffled)
    /\ UNCHANGED <<pyVars, maskVars, cfgVars, histVars, fillVars, panic, seqlens, assignments>>

\* one placement: the next length of the list is consumed
FirstFitStep ==
    /\ pc = "first_fit"
    /\ idx < Len(work)
    /\ LET st == first_fit_step([res |-> res, capacity_map |-> capacity_map],
                                work[idx + 1], pack_size)
       IN  /\ res' = st.res
           /\ capacity_map' = st.capacity_map
    /\ idx' = idx + 1
    /\ UNCHANGED <<pyVars, maskVars, pc, cfgVars, histVars, fillVars, panic, seqlens, work, assignments>>

FirstFitReturn ==
    /\ pc = "first_fit"
    /\ idx = Len(work)
    /\ assignments' = res
    /\ pc' = "packed"
    /\ UNCHANGED <<pyVars, maskVars, cfgVars, histVars, fillVars, panic, seqlens, work, idx, res,
                   capacity_map>>

(***************************************************************************)
(* lib.rs: create_hist and create_packing_strategy                         *)
(***************************************************************************)
\* dataset.into_iter().flat_map(..): one single-key entry per (field,
\* sequence); `keys` is the order in which the HashMap yields the fields
flatten_dataset(ds, keys) ==
    Flatten([k \in 1..Len(keys) |->
                [i \in 1..Len(ds[keys[k]]) |-> (keys[k] :> ds[keys[k]][i])]])

\* dataset.into_iter().for_each(..): stops at the first panic
RECURSIVE hist_for_each(_, _, _)
hist_for_each(h, entries, truncate_seq_len) ==
    IF entries = <<>> THEN [panic |-> "", sequences |-> h]
    ELSE LET entry == Head(entries)
         IN  IF "input_ids" \notin DOMAIN entry
             THEN [panic |-> "Expected key 'input_ids' in the dataset entry",
                   sequences |-> h]
             ELSE IF Len(entry["input_ids"]) > truncate_seq_len
             THEN [panic |-> "Sequence length exceeds the maximum allowed length.",
                   sequences |-> h]
             ELSE LET seq_len == Len(entry["input_ids"])
                  IN  hist_for_each(
                          MapPut(h, seq_len, Append(MapGetOrDefault(h, seq_len), entry)),
                          Tail(entries), truncate_seq_len)

create_hist(ds, keys, truncate_seq_len) ==
    LET r == hist_for_each(EmptyMap, flatten_dataset(ds, keys), truncate_seq_len)
    IN  [panic |-> r.panic,
         sequences |-> r.sequences,
         seq_lens |-> [seq_len \in 0..truncate_seq_len |->
                          Len(MapGetOrDefault(r.sequences, seq_len))]]

\* histogram.iter().enumerate().flat_map(|(i, &count)| repeat(i).take(count))
all_seq_lens(histogram) ==
    LET n == Cardinality(DOMAIN histogram)
    IN  Flatten([k \in 1..n |-> [j \in 1..histogram[k - 1] |-> k - 1]])

(***************************************************************************)
(* strategy/common.rs                                                      *)
(***************************************************************************)
create_position_ids_from_one(ids) ==
    [k \in 1..Len(ids) |-> [i \in 1..Len(ids[k]) |-> i]]
create_position_ids(ids) ==
    [k \in 1..Len(ids) |-> [i \in 1..Len(ids[k]) |-> i - 1]]

\* the (shuffled input_ids, position_ids) pairs one length bucket can get
bucket_handles(bucket) ==
    {<<ids, create_position_ids(ids)>> :
        ids \in shuffle([k \in 1..Len(bucket) |-> bucket[k]["input_ids"]])}

\* every IFileHandles value populate_ifile_handles can build
populate_ifile_handles(seqs, psize) ==
    LET present == {seq_len \in 0..psize : Len(MapGetOrDefault(seqs, seq_len)) > 0}
        pairs == UNION {bucket_handles(seqs[seq_len]) : seq_len \in present}
    IN  {h \in [present -> pairs] :
            \A seq_len \in present : h[seq_len] \in bucket_handles(seqs[seq_len])}

(***************************************************************************)
(* The invocation: fast_pack up to the fill stage.                         *)
(***************************************************************************)
CreateHist ==
    /\ pc = "create_hist"
    /\ \E keys \in PermutationsOf(SetToSeq(DOMAIN dataset)) :
          LET h == create_hist(dataset, keys, pack_size)
          IN  IF h.panic # ""
              THEN /\ pc' = "panic"
                   /\ panic' = h.panic
                   /\ UNCHANGED histVars
              ELSE /\ pc' = "create_packing_strategy"
                   /\ sequences' = h.sequences
                   /\ seq_lens' = h.seq_lens
                   /\ UNCHANGED panic
    /\ UNCHANGED <<pyVars, maskVars, cfgVars, packVars, fillVars>>

CreatePackingStrategy ==
    /\ pc = "create_packing_strategy"
    /\ packing_algorithm' \in PackingAlgo
    /\ seqlens' = all_seq_lens(seq_lens)
    /\ pc' = "pack"
    /\ UNCHANGED <<pyVars, maskVars, pack_size, return_format, pad_id, options, dataset, histVars,
                   fillVars, panic, work, idx, res, capacity_map, assignments>>

\* the inputs of the fill stage the model draws from
PadToken == 0

\* the NemoOptions values NemoOptionsBuilder::build returns
NemoOptionsChoices ==
    {[answer_loss_only |-> FALSE, answer_start_id |-> None, answer_end_id |-> None],
     [answer_loss_only |-> TRUE, answer_start_id |-> Some(1), answer_end_id |-> Some(2)]}

(***************************************************************************)
(* strategy/composer.rs, strategy/iterator.rs: the shared fill of one bin  *)
(***************************************************************************)
Front(s) == SubSeq(s, 1, Len(s) - 1)
Last(s) == s[Len(s)]

\* Vec::pop on a non-empty vector: <<the vector afterwards, the popped element>>
vec_pop_keep(v) == <<v, Last(v)>>
vec_pop(v) == <<Front(v), Last(v)>>

\* `for seq_len in assignment`: pop one (sequence, positions) pair per length
\* whose bucket exists in the pool; a length without a bucket is passed over
RECURSIVE fill_bin(_, _)
fill_bin(st, assignment) ==
    IF assignment = <<>> \/ st.panic # "" THEN st
    ELSE LET seq_len == Head(assignment)
         IN  IF seq_len \in DOMAIN st.handles
             THEN LET input_ids_vec == st.handles[seq_len][1]
                      positions_ids_vec == st.handles[seq_len][2]
                  IN  IF input_ids_vec = <<>>
                      THEN [st EXCEPT !.panic = "Expected input_ids to be available"]
                      ELSE IF positions_ids_vec = <<>>
                      THEN [st EXCEPT !.panic = "Expected positions_ids to be available"]
                      ELSE fill_bin(
                              [handles |-> [st.handles EXCEPT ![seq_len] =
                                              <<vec_pop(input_ids_vec)[1],
                                                vec_pop(positions_ids_vec)[1]>>],
                               input_ids |-> st.input_ids \o vec_pop(input_ids_vec)[2],
                               positions_ids |->
                                   st.positions_ids \o vec_pop(positions_ids_vec)[2],
                               panic |-> ""],
                              Tail(assignment))
             ELSE fill_bin(st, Tail(assignment))

\* "Handle padding and truncation here": <<token buffer, position buffer>>
pad_or_truncate_nopad(buf_ids, buf_pos, psize, pad) ==
    IF Len(buf_ids) > psize
    THEN <<SubSeq(buf_ids, 1, psize), SubSeq(buf_pos, 1, psize)>>
    ELSE <<buf_ids, buf_pos>>
pad_or_truncate(buf_ids, buf_pos, psize, pad) ==
    IF Len(buf_ids) > psize
    THEN <<SubSeq(buf_ids, 1, psize), SubSeq(buf_pos, 1, psize)>>
    ELSE IF pad # None
    THEN LET pad_len == psize - Len(buf_ids)
         IN  <<buf_ids \o [i \in 1..pad_len |-> pad[1]],
               buf_pos \o [i \in 1..pad_len |-> 0]>>
    ELSE <<buf_ids, buf_pos>>

\* one iteration of `for (oindex, assignment) in assignments.iter().enumerate()`
fill_pack(handles, assignment, psize, pad) ==
    LET st == fill_bin([handles |-> handles, input_ids |-> <<>>,
                        positions_ids |-> <<>>, panic |-> ""], assignment)
        bufs == pad_or_truncate(st.input_ids, st.positions_ids, psize, pad)
    IN  [handles |-> st.handles,
         panic |-> st.panic,
         input_ids |-> bufs[1],
         positions_ids |-> bufs[2]]

\* HashMap::values(): the values in an order the hasher decides
hash_values(m) ==
    LET n == Cardinality(DOMAIN m)
    IN  {[i \in 1..n |-> m[p[i - 1]]] : p \in Permutations(0..(n - 1))}

\* BTreeMap::into_iter(): the values in key order
btree_values_rev(m) ==
    [i \in 1..Cardinality(DOMAIN m) |-> m[Cardinality(DOMAIN m) - i]]
btree_values(m) == [i \in 1..Cardinality(DOMAIN m) |-> m[i - 1]]

\* PyReturnIter: `iter` is a vec::IntoIter, modelled by the records it still holds
__len__(iter) == Len(iter)
__next__(iter) ==
    IF iter = <<>> THEN [iter |-> iter, ret |-> None]
    ELSE [iter |-> Tail(iter), ret |-> Some(Head(iter))]

(***************************************************************************)
(* strategy/nemo.rs                                                        *)
(***************************************************************************)
\* NemoOptions::validate: the Err message, or "" for Ok(())
validate_ok(opts) == ""
validate(opts) ==
    IF opts.answer_loss_only
       /\ (opts.answer_start_id = None \/ opts.answer_end_id = None)
    THEN "answer_loss_only is set to true, but answer_start_id or answer_end_id is None"
    ELSE ""

\* NemoOptionsBuilder::build: Err(PyValueError) or Ok(options)
build(self) ==
    LET options0 == [answer_start_id |-> self.answer_start_id,
                     answer_end_id |-> self.answer_end_id,
                     answer_loss_only |-> self.answer_loss_only]
        options1 == IF ~options0.answer_loss_only
                    THEN [options0 EXCEPT !.answer_start_id = None,
                                          !.answer_end_id = None]
                    ELSE options0
        msg == validate(options1)
    IN  IF msg # "" THEN [error |-> msg, options |-> None]
        ELSE [error |-> "", options |-> Some(options1)]

IsPad(tok, pad) == pad # None /\ tok = pad[1]

\* `for i in 0..input_ids.len()` of the answer_loss_only = false branch:
\* positions holding the pad id are cleared
clear_pad_skip(mask, ids, pad, i) == mask
RECURSIVE clear_pad(_, _, _, _)
clear_pad(mask, ids, pad, i) ==
    IF i > Len(ids) THEN mask
    ELSE clear_pad(IF ids[i] = pad THEN [mask EXCEPT ![i] = FALSE] ELSE mask,
                   ids, pad, i + 1)

\* `for i in 0..input_ids.len()` of the answer_loss_only = true branch: each
\* position is written from its own token alone (the loop carries no flag)
RECURSIVE mark_answer(_, _, _, _, _, _)
mark_answer(mask, ids, answer_start_id, answer_end_id, pad, i) ==
    IF i > Len(ids) THEN mask
    ELSE mark_answer(
            IF IsPad(ids[i], pad) THEN [mask EXCEPT ![i] = FALSE]
            ELSE IF ids[i] = answer_start_id THEN [mask EXCEPT ![i] = TRUE]
            ELSE IF ids[i] = answer_end_id THEN [mask EXCEPT ![i] = FALSE]
            ELSE mask,
            ids, answer_start_id, answer_end_id, pad, i + 1)

create_loss_mask(ids, answer_loss_only, answer_start_id, answer_end_id, pad) ==
    IF ~answer_loss_only
    THEN IF Len(ids) = 0
         THEN \* loss_mask[0] = false on an empty vector
              [panic |-> "index out of bounds: the len is 0 but the index is 0",
               mask |-> <<>>]
         ELSE LET loss_mask0 == [[i \in 1..Len(ids) |-> TRUE] EXCEPT ![1] = FALSE]
              IN  [panic |-> "",
                   mask |-> IF pad # None THEN clear_pad(loss_mask0, ids, pad[1], 1)
                            ELSE loss_mask0]
    ELSE IF answer_start_id = None
    THEN [panic |-> "answer_start_id is None", mask |-> <<>>]
    ELSE IF answer_end_id = None
    THEN [panic |-> "answer_end_id is None", mask |-> <<>>]
    ELSE [panic |-> "",
          mask |-> mark_answer([i \in 1..Len(ids) |-> FALSE], ids,
                               answer_start_id[1], answer_end_id[1], pad, 1)]

\* `for seq_len in assignment` of nemo_packing_strategy
RECURSIVE nemo_fill_bin(_, _, _, _)
nemo_fill_bin(st, assignment, opts, pad) ==
    IF assignment = <<>> \/ st.panic # "" THEN st
    ELSE LET seq_len == Head(assignment)
         IN  IF seq_len \in DOMAIN st.handles
             THEN LET input_ids_vec == st.handles[seq_len][1]
                      positions_ids_vec == st.handles[seq_len][2]
                  IN  IF input_ids_vec = <<>>
                      THEN [st EXCEPT !.panic = "Expected input_ids to be available"]
                      ELSE LET input_vec == vec_pop(input_ids_vec)[2]
                               m == create_loss_mask(input_vec, opts.answer_loss_only,
                                        opts.answer_start_id, opts.answer_end_id, pad)
                           IN  IF m.panic # "" THEN [st EXCEPT !.panic = m.panic]
                               ELSE IF positions_ids_vec = <<>>
                               THEN [st EXCEPT !.panic =
                                        "Expected positions_ids to be available"]
                               ELSE nemo_fill_bin(
                                      [handles |-> [st.handles EXCEPT ![seq_len] =
                                            <<vec_pop(input_ids_vec)[1],
                                              vec_pop(positions_ids_vec)[1]>>],
                                       input_ids |-> st.input_ids \o input_vec,
                                       loss_mask |-> st.loss_mask \o m.mask,
                                       seq_start_id |-> Append(st.seq_start_id,
                                                          Len(st.input_ids \o input_vec)),
                                       panic |-> ""],
                                      Tail(assignment), opts, pad)
             ELSE nemo_fill_bin(st, Tail(assignment), opts, pad)

\* the offsets kept for a pack: _seq_start_id.pop() drops the last one
seq_start_id_keep_all(offsets) == offsets
seq_start_id_pop(offsets) == Front(offsets)

\* one iteration of the for_each over the assignments
nemo_fill_pack(handles, assignment, opts, pad) ==
    LET st == nemo_fill_bin([handles |-> handles, input_ids |-> <<>>,
                             loss_mask |-> <<>>, seq_start_id |-> <<0>>,
                             panic |-> ""], assignment, opts, pad)
    IN  [st EXCEPT !.seq_start_id = seq_start_id_pop(st.seq_start_id)]

(***************************************************************************)
(* The fill stage, one bin per step.                                       *)
(***************************************************************************)
\* fill_packing_strategy: populate the pool, then dispatch on the format
FillPackingStrategy ==
    /\ pc = "packed"
    /\ \E h \in populate_ifile_handles(sequences, pack_size) : ifile_handles' = h
    /\ \E f \in {"composer", "nemo", "iterator"},
          pad \in {None, Some(PadToken)},
          opts \in {None} \cup {Some(o) : o \in NemoOptionsChoices} :
          /\ return_format' = f
          /\ pad_id' = pad
          /\ options' = opts
          /\ IF f = "nemo" /\ opts = None
             THEN /\ pc' = "panic"
                  /\ panic' = "PackingOptions is required for Nemo"
             ELSE /\ pc' = f
                  /\ UNCHANGED panic
    /\ UNCHANGED <<pyVars, maskVars, pack_size, packing_algorithm, dataset, packVars, histVars, oindex,
                   input_ids, positions_ids, loss_mask, seq_start_id, result>>

\* composer and iterator share the loop body
FillBin(format) ==
    /\ pc = format
    /\ oindex < Len(assignments)
    /\ LET r == fill_pack(ifile_handles, assignments[oindex + 1], pack_size, pad_id)
       IN  IF r.panic # ""
           THEN /\ pc' = "panic"
                /\ panic' = r.panic
                /\ UNCHANGED <<ifile_handles, oindex, input_ids, positions_ids>>
           ELSE /\ ifile_handles' = r.handles
                /\ input_ids' = MapPut(input_ids, oindex, r.input_ids)
                /\ positions_ids' = MapPut(positions_ids, oindex, r.positions_ids)
                /\ oindex' = oindex + 1
                /\ UNCHANGED <<pc, panic>>
    /\ UNCHANGED <<pyVars, maskVars, cfgVars, packVars, histVars, loss_mask, seq_start_id, result>>

ComposerFillBin == FillBin("composer")

ComposerReturn ==
    /\ pc = "composer"
    /\ oindex = Len(assignments)
    /\ \E list_input_ids \in hash_values(input_ids),
          list_positions_ids \in hash_values(positions_ids) :
          result' = [tokens |-> list_input_ids, positions_ids |-> list_positions_ids]
    /\ pc' = "done"
    /\ UNCHANGED <<pyVars, maskVars, cfgVars, packVars, histVars, ifile_handles, oindex, input_ids,
                   positions_ids, loss_mask, seq_start_id, panic>>

IteratorFillBin == FillBin("iterator")

IteratorReturn ==
    /\ pc = "iterator"
    /\ oindex = Len(assignments)
    /\ result' = [i \in 1..oindex |->
                    [tokens |-> btree_values(input_ids)[i],
                     position_ids |-> btree_values(positions_ids)[i]]]
    /\ pc' = "done"
    /\ UNCHANGED <<pyVars, maskVars, cfgVars, packVars, histVars, ifile_handles, oindex, input_ids,
                   positions_ids, loss_mask, seq_start_id, panic>>

\* the caller pulls the next record: PyReturnIter::__next__
IterNext ==
    /\ pc \in {"done", "iterating"}
    /\ return_format = "iterator"
    /\ Len(yielded) < MaxNextCalls
    /\ LET r == __next__(result)
       IN  /\ result' = r.iter
           /\ yielded' = Append(yielded, r.ret)
    /\ pc' = "iterating"
    /\ UNCHANGED <<builder, error, maskVars, cfgVars, packVars, histVars, ifile_handles,
                   oindex, input_ids, positions_ids, loss_mask, seq_start_id, panic>>

NemoFillBin ==
    /\ pc = "nemo"
    /\ oindex < Len(assignments)
    /\ LET r == nemo_fill_pack(ifile_handles, assignments[oindex + 1], options[1], pad_id)
       IN  IF r.panic # ""
           THEN /\ pc' = "panic"
                /\ panic' = r.panic
                /\ UNCHANGED <<ifile_handles, oindex, input_ids, loss_mask, seq_start_id>>
           ELSE /\ ifile_handles' = r.handles
                /\ input_ids' = MapPut(input_ids, oindex, r.input_ids)
                /\ loss_mask' = MapPut(loss_mask, oindex, r.loss_mask)
                /\ seq_start_id' = MapPut(seq_start_id, oindex, r.seq_start_id)
                /\ oindex' = oindex + 1
                /\ UNCHANGED <<pc, panic>>
    /\ UNCHANGED <<pyVars, maskVars, cfgVars, packVars, histVars, positions_ids, result>>

NemoReturn ==
    /\ pc = "nemo"
    /\ oindex = Len(assignments)
    /\ \E list_input_ids \in hash_values(input_ids),
          list_loss_mask \in hash_values(loss_mask),
          list_seq_start_id \in hash_values(seq_start_id) :
          result' = [input_ids |-> list_input_ids, loss_mask |-> list_loss_mask,
                     seq_start_id |-> list_seq_start_id]
    /\ pc' = "done"
    /\ UNCHANGED <<pyVars, maskVars, cfgVars, packVars, histVars, ifile_handles, oindex, input_ids,
                   positions_ids, loss_mask, seq_start_id, panic>>

\* the state of the stages that have not run
FillIdleRest ==
    /\ sequences = EmptyMap
    /\ ifile_handles = EmptyMap
    /\ oindex = 0
    /\ input_ids = EmptyMap
    /\ positions_ids = EmptyMap
    /\ loss_mask = EmptyMap
    /\ seq_start_id = EmptyMap
    /\ result = EmptyMap
    /\ panic = ""
    /\ mask_call = EmptyMap
    /\ mask_ret = EmptyMap
    /\ yielded = <<>>
    /\ builder = EmptyMap
    /\ error = ""

FillIdle ==
    /\ seq_lens = EmptyMap
    /\ FillIdleRest

(***************************************************************************)
(* SpecPack: PackingAlgo::pack on every list of lengths <= pack_size.      *)
(***************************************************************************)
InitPack ==
    /\ pc = "pack"
    /\ pack_size \in 1..MaxPackSize
    /\ packing_algorithm \in PackingAlgo
    /\ seqlens \in SeqsUpTo(0..pack_size, MaxItems)
    /\ work = <<>>
    /\ idx = 0
    /\ res = <<>>
    /\ capacity_map = EmptyMap
    /\ assignments = <<>>
    /\ dataset = EmptyMap
    /\ return_format = ""
    /\ pad_id = None
    /\ options = None
    /\ FillIdle

NextPack ==
    \/ PackFirstFit
    \/ PackFirstFitDecreasing
    \/ PackFirstFitShuffle
    \/ FirstFitStep
    \/ FirstFitReturn

SpecPack == InitPack /\ [][NextPack]_vars

(***************************************************************************)
(* SpecMask: create_loss_mask called directly, as the unit tests do, on    *)
(* every token sequence of at most MaxMaskLen tokens in 0..MaxToken.       *)
(***************************************************************************)
MaskCalls ==
    [input_ids : SeqsUpTo(0..MaxToken, MaxMaskLen),
     answer_loss_only : BOOLEAN,
     answer_start_id : {None, Some(1)},
     answer_end_id : {None, Some(1), Some(2)},
     pad_id : {None, Some(0), Some(1), Some(2)}]

CallCreateLossMask ==
    /\ pc = "create_loss_mask"
    /\ mask_ret' = create_loss_mask(mask_call.input_ids, mask_call.answer_loss_only,
                        mask_call.answer_start_id, mask_call.answer_end_id,
                        mask_call.pad_id)
    /\ pc' = IF mask_ret'.panic # "" THEN "panic" ELSE "returned"
    /\ panic' = mask_ret'.panic
    /\ UNCHANGED <<pyVars, mask_call, cfgVars, packVars, histVars, fillVars>>

InitMask ==
    /\ pc = "create_loss_mask"
    /\ mask_call \in MaskCalls
    /\ mask_ret = EmptyMap
    /\ pack_size = 1
    /\ packing_algorithm = ""
    /\ seqlens = <<>>
    /\ work = <<>>
    /\ idx = 0
    /\ res = <<>>
    /\ capacity_map = EmptyMap
    /\ assignments = <<>>
    /\ dataset = EmptyMap
    /\ return_format = ""
    /\ pad_id = None
    /\ options = None
    /\ seq_lens = EmptyMap
    /\ sequences = EmptyMap
    /\ ifile_handles = EmptyMap
    /\ oindex = 0
    /\ input_ids = EmptyMap
    /\ positions_ids = EmptyMap
    /\ loss_mask = EmptyMap
    /\ seq_start_id = EmptyMap
    /\ result = EmptyMap
    /\ panic = ""
    /\ yielded = <<>>
    /\ builder = EmptyMap
    /\ error = ""

NextMask == CallCreateLossMask

SpecMask == InitMask /\ [][NextMask]_vars

(***************************************************************************)
(* SpecStrategy: create_packing_strategy on every histogram of at most     *)
(* MaxItems sequences.                                                     *)
(***************************************************************************)
Histograms(psize) ==
    {h \in [0..psize -> 0..MaxItems] : Len(all_seq_lens(h)) <= MaxItems}

InitStrategy ==
    /\ pc = "create_packing_strategy"
    /\ pack_size \in 1..MaxPackSize
    /\ packing_algorithm = ""
    /\ seqlens = <<>>
    /\ work = <<>>
    /\ idx = 0
    /\ res = <<>>
    /\ capacity_map = EmptyMap
    /\ assignments = <<>>
    /\ dataset = EmptyMap
    /\ return_format = ""
    /\ pad_id = None
    /\ options = None
    /\ FillIdleRest
    /\ seq_lens \in Histograms(pack_size)

NextStrategy ==
    \/ CreatePackingStrategy
    \/ PackFirstFit
    \/ PackFirstFitDecreasing
    \/ PackFirstFitShuffle
    \/ FirstFitStep
    \/ FirstFitReturn

SpecStrategy == InitStrategy /\ [][NextStrategy]_vars

(***************************************************************************)
(* Spec: one invocation of the whole pipeline on a dataset.  Record i of   *)
(* the dataset holds the token i repeated, so a token names its record;    *)
(* the pad token is 0.                                                     *)
(***************************************************************************)
MkSequences(lens) == [i \in 1..Len(lens) |-> [j \in 1..lens[i] |-> i]]

Datasets ==
    LET idss == {MkSequences(lens) : lens \in SeqsUpTo(0..MaxPackSize, MaxSeqs)}
    IN  {("input_ids" :> ids) : ids \in idss}
        \cup {("input_ids" :> ids) @@ ("labels" :> ids) : ids \in idss}

Init ==
    /\ pc = "create_hist"
    /\ pack_size \in 1..MaxPackSize
    /\ packing_algorithm = ""
    /\ dataset \in Datasets
    /\ return_format = ""
    /\ pad_id = None
    /\ options = None
    /\ seqlens = <<>>
    /\ work = <<>>
    /\ idx = 0
    /\ res = <<>>
    /\ capacity_map = EmptyMap
    /\ assignments = <<>>
    /\ FillIdle

Next ==
    \/ CreateHist
    \/ CreatePackingStrategy
    \/ PackFirstFit
    \/ PackFirstFitDecreasing
    \/ PackFirstFitShuffle
    \/ FirstFitStep
    \/ FirstFitReturn
    \/ FillPackingStrategy
    \/ ComposerFillBin
    \/ ComposerReturn
    \/ IteratorFillBin
    \/ IteratorReturn
    \/ IterNext
    \/ NemoFillBin
    \/ NemoReturn

Spec == Init /\ [][Next]_vars

(***************************************************************************)
(* SpecOptions: NemoOptionsBuilder::build on every builder, and the        *)
(* options it returns handed to create_loss_mask as nemo_packing_strategy  *)
(* hands them.                                                             *)
(***************************************************************************)
OptionalToken == {None} \cup {Some(t) : t \in 0..MaxToken}

Builders ==
    [answer_start_id : OptionalToken,
     answer_end_id : OptionalToken,
     answer_loss_only : BOOLEAN]

Build ==
    /\ pc = "build"
    /\ LET r == build(builder)
       IN  IF r.error # ""
           THEN /\ pc' = "error"
                /\ error' = r.error
                /\ UNCHANGED options
           ELSE /\ pc' = "built"
                /\ options' = r.options
                /\ UNCHANGED error
    /\ UNCHANGED <<yielded, builder, maskVars, pack_size, packing_algorithm, return_format,
                   pad_id, dataset, packVars, histVars, fillVars, panic>>

\* create_loss_mask(&input_vec, options.answer_loss_only, options.answer_start_id,
\*                  options.answer_end_id, pad_id)
NemoPassOptions ==
    /\ pc = "built"
    /\ \E ids \in SeqsUpTo(0..MaxToken, MaxSeqs), pad \in {None, Some(PadToken)} :
          mask_call' = [input_ids |-> ids,
                        answer_loss_only |-> options[1].answer_loss_only,
                        answer_start_id |-> options[1].answer_start_id,
                        answer_end_id |-> options[1].answer_end_id,
                        pad_id |-> pad]
    /\ pc' = "create_loss_mask"
    /\ UNCHANGED <<pyVars, mask_ret, cfgVars, packVars, histVars, fillVars, panic>>

InitOptions ==
    /\ pc = "build"
    /\ builder \in Builders
    /\ error = ""
    /\ yielded = <<>>
    /\ mask_call = EmptyMap
    /\ mask_ret = EmptyMap
    /\ pack_size = 1
    /\ packing_algorithm = ""
    /\ seqlens = <<>>
    /\ work = <<>>
    /\ idx = 0
    /\ res = <<>>
    /\ capacity_map = EmptyMap
    /\ assignments = <<>>
    /\ dataset = EmptyMap
    /\ return_format = ""
    /\ pad_id = None
    /\ options = None
    /\ seq_lens = EmptyMap
    /\ sequences = EmptyMap
    /\ ifile_handles = EmptyMap
    /\ oindex = 0
    /\ input_ids = EmptyMap
    /\ positions_ids = EmptyMap
    /\ loss_mask = EmptyMap
    /\ seq_start_id = EmptyMap
    /\ result = EmptyMap
    /\ panic = ""

NextOptions ==
    \/ Build
    \/ NemoPassOptions
    \/ CallCreateLossMask

SpecOptions == InitOptions /\ [][NextOptions]_vars

(***************************************************************************)
(* SpecFill: fill_packing_strategy called with any assignment and any      *)
(* histogram, whether or not the one was derived from the other.           *)
(***************************************************************************)
FillBins(psize) == SeqsUpTo(0..psize, MaxSeqs) \ {<<>>}

InitFill ==
    /\ pc = "packed"
    /\ pack_size \in 1..MaxFillPackSize
    /\ assignments \in SeqsUpTo(FillBins(pack_size), MaxSeqs)
    /\ \E lens \in SeqsUpTo(0..pack_size, MaxSeqs) :
          /\ dataset = ("input_ids" :> MkSequences(lens))
          /\ sequences = create_hist(dataset, <<"input_ids">>, pack_size).sequences
          /\ seq_lens = create_hist(dataset, <<"input_ids">>, pack_size).seq_lens
    /\ packing_algorithm = ""
    /\ return_format = ""
    /\ pad_id = None
    /\ options = None
    /\ seqlens = <<>>
    /\ work = <<>>
    /\ idx = 0
    /\ res = <<>>
    /\ capacity_map = EmptyMap
    /\ ifile_handles = EmptyMap
    /\ oindex = 0
    /\ input_ids = EmptyMap
    /\ positions_ids = EmptyMap
    /\ loss_mask = EmptyMap
    /\ seq_start_id = EmptyMap
    /\ result = EmptyMap
    /\ panic = ""
    /\ mask_call = EmptyMap
    /\ mask_ret = EmptyMap
    /\ yielded = <<>>
    /\ builder = EmptyMap
    /\ error = ""

NextFill ==
    \/ FillPackingStrategy
    \/ ComposerFillBin
    \/ ComposerReturn
    \/ IteratorFillBin
    \/ IteratorReturn
    \/ NemoFillBin
    \/ NemoReturn

SpecFill == InitFill /\ [][NextFill]_vars

(***************************************************************************)
(* SpecCompare: first_fit and first_fit_decreasing on the same lists, up   *)
(* to MaxCompareItems lengths in 1..MaxCompareLen.                         *)
(***************************************************************************)
InitCompare ==
    /\ pc = "pack"
    /\ pack_size \in 1..MaxComparePackSize
    /\ packing_algorithm \in {"FirstFit", "FirstFitDecreasing"}
    /\ seqlens \in SeqsUpTo(1..Min({MaxCompareLen, pack_size}), MaxCompareItems)
    /\ work = <<>>
    /\ idx = 0
    /\ res = <<>>
    /\ capacity_map = EmptyMap
    /\ assignments = <<>>
    /\ dataset = EmptyMap
    /\ return_format = ""
    /\ pad_id = None
    /\ options = None
    /\ FillIdle

NextCompare ==
    \/ PackFirstFit
    \/ PackFirstFitDecreasing
    \/ FirstFitStep
    \/ FirstFitReturn

SpecCompare == InitCompare /\ [][NextCompare]_vars

(***************************************************************************)
(* C1: every bin holds lengths summing to at most pack_size, after every   *)
(* placement step of first_fit and in the returned assignment, for each of *)
(* the three algorithms.                                                   *)
(***************************************************************************)
BinsWithinCapacity(bins) == \A b \in 1..Len(bins) : SumSeq(bins[b]) <= pack_size

C1_BinSumBounded ==
    /\ pc = "first_fit" => BinsWithinCapacity(res)
    /\ pc = "packed" => BinsWithinCapacity(assignments)

C1_Witness ==
    /\ pc = "packed"
    /\ packing_algorithm = "FirstFitShuffle"
    /\ Len(assignments) >= 2
    /\ \E b \in 1..Len(assignments) :
          Len(assignments[b]) >= 2 /\ SumSeq(assignments[b]) = pack_size

(***************************************************************************)
(* C2: first_fit places each length into the earliest-created bin whose    *)
(* remaining capacity is at least the length, i.e. its result equals that  *)
(* of a linear scan over the bins in creation order; [1,2,3,4,5] with      *)
(* capacity 5 gives [[1,2],[3],[4],[5]].                                   *)
(***************************************************************************)
RECURSIVE LinearScanFirstFit(_, _, _)
LinearScanFirstFit(bins, lens, psize) ==
    IF lens = <<>> THEN bins
    ELSE LET s == Head(lens)
             fits == {b \in 1..Len(bins) : psize - SumSeq(bins[b]) >= s}
         IN  IF fits = {}
             THEN LinearScanFirstFit(Append(bins, <<s>>), Tail(lens), psize)
             ELSE LinearScanFirstFit([bins EXCEPT ![Min(fits)] = Append(@, s)],
                                     Tail(lens), psize)

C2_FirstFitIsLinearScan ==
    /\ first_fit(<<1, 2, 3, 4, 5>>, 5) = <<<<1, 2>>, <<3>>, <<4>>, <<5>>>>
    /\ pc = "packed" => assignments = LinearScanFirstFit(<<>>, work, pack_size)

(***************************************************************************)
(* C3: the lengths held by the bins of the returned assignment are exactly *)
(* the input lengths as a multiset, and for every length L the number of   *)
(* bin slots of length L equals the histogram count of L.                  *)
(***************************************************************************)
CountIn(s, x) == Cardinality({i \in 1..Len(s) : s[i] = x})

C3_AssignmentExhaustsLengths ==
    pc = "packed" =>
        /\ SeqToBag(Flatten(assignments)) = SeqToBag(seqlens)
        /\ \A L \in 0..pack_size : CountIn(Flatten(assignments), L) = seq_lens[L]

C3_Witness ==
    /\ pc = "packed"
    /\ Len(assignments) >= 2
    /\ \E L \in 1..pack_size : seq_lens[L] >= 2
    /\ \E b \in 1..Len(assignments) : Len(assignments[b]) >= 2

(***************************************************************************)
(* The packs handed to the caller, whatever the format.                    *)
(***************************************************************************)
OutputTokens ==
    IF return_format = "composer" THEN result.tokens
    ELSE IF return_format = "nemo" THEN result.input_ids
    ELSE [i \in 1..Len(result) |-> result[i].tokens]

DatasetIds == dataset["input_ids"]

PoolEmpty == \A seq_len \in DOMAIN ifile_handles : ifile_handles[seq_len] = <<<<>>, <<>>>>

(***************************************************************************)
(* C4: when the fill has processed the assignment derived from the         *)
(* dataset's histogram, every input sequence appears in exactly one output *)
(* pack exactly once, the pool is empty and no pack is truncated.          *)
(* (Record i consists of the token i, so occurrences of i count record i.) *)
(***************************************************************************)
C4_RoundTrip ==
    pc = "done" =>
        /\ PoolEmpty
        /\ Len(OutputTokens) = Len(assignments)
        /\ \A i \in 1..Len(DatasetIds) :
              Len(DatasetIds[i]) > 0 =>
                 \E o \in 1..Len(OutputTokens) :
                    /\ CountIn(OutputTokens[o], i) = Len(DatasetIds[i])
                    /\ \A o2 \in 1..Len(OutputTokens) :
                          o2 # o => CountIn(OutputTokens[o2], i) = 0
        /\ SeqToBag([o \in 1..Len(OutputTokens) |->
                        Len(OutputTokens[o]) - CountIn(OutputTokens[o], PadToken)])
              = SeqToBag([b \in 1..Len(assignments) |-> SumSeq(assignments[b])])
        /\ SumSeq([o \in 1..Len(OutputTokens) |->
                        Len(OutputTokens[o]) - CountIn(OutputTokens[o], PadToken)])
              = SumSeq([i \in 1..Len(DatasetIds) |-> Len(DatasetIds[i])])

C4_Witness ==
    /\ pc = "done"
    /\ Len(DatasetIds) = 2
    /\ Len(DatasetIds[1]) = Len(DatasetIds[2])
    /\ Len(DatasetIds[1]) > 0
    /\ Len(assignments) = 1
    /\ pad_id # None

(***************************************************************************)
(* C5: in the composer output tokens[i] and positions_ids[i] are both the  *)
(* buffers built from the i-th bin of the assignment (parallel lists, in   *)
(* bin-creation order).                                                    *)
(***************************************************************************)
C5_ComposerParallelInBinOrder ==
    (pc = "done" /\ return_format = "composer") =>
        /\ Len(result.tokens) = Len(assignments)
        /\ Len(result.positions_ids) = Len(assignments)
        /\ \A i \in 1..Len(assignments) :
              /\ result.tokens[i] = input_ids[i - 1]
              /\ result.positions_ids[i] = positions_ids[i - 1]

(***************************************************************************)
(* C6 as stated: in each of the three formats, with a pad id configured    *)
(* every pack's token sequence has length exactly capacity (the            *)
(* concatenated tokens followed by pad ids); without one it keeps its      *)
(* concatenated length.                                                    *)
(***************************************************************************)
FilledPacks == 0..(oindex - 1)

PaddedToCapacity(buf, bin, fill) ==
    /\ Len(buf) = pack_size
    /\ \A i \in (SumSeq(bin) + 1)..Len(buf) : buf[i] = fill

KeepsConcatenatedLength(buf, bin) == Len(buf) = SumSeq(bin)

C6_PaddedInEveryFormat ==
    pc \in {"composer", "nemo", "iterator", "done"} =>
        \A o \in FilledPacks :
            IF pad_id # None
            THEN PaddedToCapacity(input_ids[o], assignments[o + 1], pad_id[1])
            ELSE KeepsConcatenatedLength(input_ids[o], assignments[o + 1])

(***************************************************************************)
(* C6 amended: in the composer and iterator formats, with a pad id         *)
(* configured every pack's token sequence is the concatenated tokens       *)
(* followed by pad ids up to length capacity and its position sequence is  *)
(* followed by zeros up to capacity; without a pad id both keep the        *)
(* concatenated length.  The nemo format never pads: its input_ids keep    *)
(* the concatenated length whether or not a pad id is configured.          *)
(***************************************************************************)
C6_PaddedInComposerAndIterator ==
    /\ (pc \in {"composer", "iterator"} \/ (pc = "done" /\ return_format # "nemo")) =>
          \A o \in FilledPacks :
              IF pad_id # None
              THEN /\ PaddedToCapacity(input_ids[o], assignments[o + 1], pad_id[1])
                   /\ PaddedToCapacity(positions_ids[o], assignments[o + 1], 0)
                   /\ \A i \in 1..SumSeq(assignments[o + 1]) : input_ids[o][i] # pad_id[1]
              ELSE /\ KeepsConcatenatedLength(input_ids[o], assignments[o + 1])
                   /\ KeepsConcatenatedLength(positions_ids[o], assignments[o + 1])
    /\ (pc = "nemo" \/ (pc = "done" /\ return_format = "nemo")) =>
          \A o \in FilledPacks :
              KeepsConcatenatedLength(input_ids[o], assignments[o + 1])

C6_Witness ==
    /\ pc = "done"
    /\ return_format = "iterator"
    /\ pad_id # None
    /\ \E o \in FilledPacks :
          /\ SumSeq(assignments[o + 1]) < pack_size
          /\ Len(assignments[o + 1]) = 2
          /\ Len(input_ids[o]) = pack_size

(***************************************************************************)
(* C9: in the nemo output the loss_mask entry of every pack has the length *)
(* of the input_ids entry at the same index, for every dataset with        *)
(* sequence lengths in 0..=capacity, and computing the mask never fails.   *)
(***************************************************************************)
C9_LossMaskAsLongAsInputIds ==
    /\ panic # "index out of bounds: the len is 0 but the index is 0"
    /\ (pc = "done" /\ return_format = "nemo") =>
          /\ Len(result.loss_mask) = Len(result.input_ids)
          /\ \A i \in 1..Len(result.input_ids) :
                Len(result.loss_mask[i]) = Len(result.input_ids[i])

(***************************************************************************)
(* C10 as stated: seq_start_id of a pack built from sub-sequences of       *)
(* lengths l1..lk is [l1, l1+l2, ..., l1+...+l(k-1)], the offset 0 of the  *)
(* first sub-sequence being omitted.                                       *)
(***************************************************************************)
RECURSIVE EndOffsets(_, _)
EndOffsets(lens, from) ==
    IF lens = <<>> THEN <<>>
    ELSE <<from + Head(lens)>> \o EndOffsets(Tail(lens), from + Head(lens))

C10_StartOffsetsWithoutZero ==
    pc \in {"nemo", "done"} =>
        \A o \in DOMAIN seq_start_id :
            seq_start_id[o] = Front(EndOffsets(assignments[o + 1], 0))

(***************************************************************************)
(* C10 amended: seq_start_id of a pack built from sub-sequences of lengths *)
(* l1..lk is [0, l1, l1+l2, ..., l1+...+l(k-1)]: the offset at which every *)
(* sub-sequence begins, the 0 of the first one included; the offset        *)
(* l1+...+lk at which the pack ends is the one left out.  Every entry of   *)
(* the returned seq_start_id list is such a list of one of the packs.      *)
(***************************************************************************)
StartOffsets(lens) == <<0>> \o Front(EndOffsets(lens, 0))

C10_StartOffsetsWithZero ==
    /\ pc \in {"nemo", "done"} =>
          \A o \in DOMAIN seq_start_id :
              seq_start_id[o] = StartOffsets(assignments[o + 1])
    /\ (pc = "done" /\ return_format = "nemo") =>
          /\ Len(result.seq_start_id) = Len(assignments)
          /\ \A i \in 1..Len(result.seq_start_id) :
                \E b \in 1..Len(assignments) :
                    result.seq_start_id[i] = StartOffsets(assignments[b])

C10_Witness ==
    /\ pc = "done"
    /\ return_format = "nemo"
    /\ \E i \in 1..Len(result.seq_start_id) :
          /\ Len(result.seq_start_id[i]) = 2
          /\ result.seq_start_id[i][2] > 0

(***************************************************************************)
(* C7: create_loss_mask with answer_loss_only = true returns a mask that   *)
(* is false by default and true from every answer_start_id (inclusive) up  *)
(* to, not including, the next answer_end_id; a position holding the pad   *)
(* id is false and leaves the phase as it was.                             *)
(***************************************************************************)
RECURSIVE AnswerSpanMask(_, _, _, _, _)
AnswerSpanMask(ids, start, end, pad, is_answer) ==
    IF ids = <<>> THEN <<>>
    ELSE IF IsPad(Head(ids), pad)
         THEN <<FALSE>> \o AnswerSpanMask(Tail(ids), start, end, pad, is_answer)
         ELSE LET phase == IF Head(ids) = start THEN TRUE
                           ELSE IF Head(ids) = end THEN FALSE
                           ELSE is_answer
              IN  <<phase>> \o AnswerSpanMask(Tail(ids), start, end, pad, phase)

C7_MaskTrueFromStartUntilEnd ==
    (pc = "returned" /\ mask_call.answer_loss_only) =>
        mask_ret.mask = AnswerSpanMask(mask_call.input_ids, mask_call.answer_start_id[1],
                                       mask_call.answer_end_id[1], mask_call.pad_id, FALSE)

(***************************************************************************)
(* C8: create_loss_mask with answer_loss_only = false returns a mask as    *)
(* long as the sub-sequence that is true at every position except          *)
(* position 0 and the positions whose token is the configured pad id;      *)
(* [1,2,3,4,5] without a pad id gives [false,true,true,true,true].         *)
(***************************************************************************)
C8_MaskAllButFirstAndPad ==
    /\ create_loss_mask(<<1, 2, 3, 4, 5>>, FALSE, None, None, None).mask
          = <<FALSE, TRUE, TRUE, TRUE, TRUE>>
    /\ (pc = "returned" /\ ~mask_call.answer_loss_only) =>
          /\ Len(mask_ret.mask) = Len(mask_call.input_ids)
          /\ \A i \in 1..Len(mask_ret.mask) :
                mask_ret.mask[i] <=>
                    (i # 1 /\ ~IsPad(mask_call.input_ids[i], mask_call.pad_id))

C8_Witness ==
    /\ pc = "returned"
    /\ ~mask_call.answer_loss_only
    /\ mask_call.pad_id # None
    /\ \E i, j \in 2..Len(mask_ret.mask) :
          /\ mask_call.input_ids[i] = mask_call.pad_id[1]
          /\ ~mask_ret.mask[i]
          /\ mask_ret.mask[j]

(***************************************************************************)
(* C11: create_hist fails with the length-exceeded error whenever an       *)
(* input_ids sequence is longer than the capacity, and then no histogram,  *)
(* assignment or output exists; when every sequence has length <= capacity *)
(* that error is not raised.                                               *)
(***************************************************************************)
TooLong == \E i \in 1..Len(DatasetIds) : Len(DatasetIds[i]) > pack_size

C11_LengthExceededIsFatal ==
    pc # "create_hist" =>
        IF TooLong
        THEN /\ pc = "panic"
             /\ panic = "Sequence length exceeds the maximum allowed length."
             /\ sequences = EmptyMap
             /\ seq_lens = EmptyMap
             /\ assignments = <<>>
             /\ result = EmptyMap
        ELSE panic # "Sequence length exceeds the maximum allowed length."

(***************************************************************************)
(* C12: for a dataset that contains input_ids, with or without further     *)
(* fields, and whose input_ids sequences are all <= capacity, create_hist  *)
(* succeeds: the histogram holds one record per input_ids sequence under   *)
(* the bucket of its length, the count array has capacity+1 entries and    *)
(* entry L counts the sequences of length L; the missing-field failure     *)
(* does not occur.                                                         *)
(***************************************************************************)
IdsOfLength(L) ==
    LET at == {i \in 1..Len(DatasetIds) : Len(DatasetIds[i]) = L}
    IN  {DatasetIds[i] : i \in at}

C12_InputIdsDatasetSucceeds ==
    (pc # "create_hist" /\ "input_ids" \in DOMAIN dataset /\ ~TooLong) =>
        /\ panic # "Expected key 'input_ids' in the dataset entry"
        /\ DOMAIN seq_lens = 0..pack_size
        /\ \A L \in 0..pack_size :
              /\ seq_lens[L] = Cardinality({i \in 1..Len(DatasetIds) :
                                               Len(DatasetIds[i]) = L})
              /\ Len(MapGetOrDefault(sequences, L)) = seq_lens[L]
              /\ {MapGetOrDefault(sequences, L)[k]["input_ids"] : k \in 1..seq_lens[L]}
                    = IdsOfLength(L)

(***************************************************************************)
(* C13: the iterator yields one record per bin of the assignment, in       *)
(* bin-creation order, each holding the tokens and the position_ids of     *)
(* that bin's pack; every __next__ call after the last record returns      *)
(* nothing, so no pack is yielded twice.                                   *)
(***************************************************************************)
NonPadLen(buf) == Len(buf) - CountIn(buf, PadToken)

PackRecords ==
    [i \in 1..Len(assignments) |->
        [tokens |-> input_ids[i - 1], position_ids |-> positions_ids[i - 1]]]

C13_IteratorYieldsBinsInOrder ==
    (pc \in {"done", "iterating"} /\ return_format = "iterator") =>
        LET n == Len(assignments)
            taken == IF Len(yielded) < n THEN Len(yielded) ELSE n
        IN  /\ \A k \in 1..Len(yielded) :
                  yielded[k] = IF k <= n THEN Some(PackRecords[k]) ELSE None
            /\ result = SubSeq(PackRecords, taken + 1, n)
            /\ \A i \in 1..n :
                  /\ Len(PackRecords[i].tokens) = Len(PackRecords[i].position_ids)
                  /\ NonPadLen(PackRecords[i].tokens) = SumSeq(assignments[i])

C13_Witness ==
    /\ pc = "iterating"
    /\ Len(assignments) = 2
    /\ Len(yielded) = 4
    /\ yielded[1] # yielded[2]
    /\ yielded[3] = None
    /\ yielded[4] = None

(***************************************************************************)
(* C14: the count the iterator exposes (__len__) is the number of packs of *)
(* the assignment, before, between and after any number of __next__ calls. *)
(***************************************************************************)
C14_LenIsNumberOfPacks ==
    (pc \in {"done", "iterating"} /\ return_format = "iterator") =>
        __len__(result) = Len(assignments)

(***************************************************************************)
(* C15: every NemoOptions value build returns has both answer ids when     *)
(* answer_loss_only is true; build returns an error and no options exactly *)
(* when the builder has answer_loss_only = true and lacks an id; so        *)
(* create_loss_mask is never called with answer_loss_only = true and a     *)
(* missing id.                                                             *)
(***************************************************************************)
C15_BuiltOptionsAreValid ==
    /\ options # None =>
          (options[1].answer_loss_only =>
              options[1].answer_start_id # None /\ options[1].answer_end_id # None)
    /\ pc # "build" =>
          ((pc = "error") <=>
              (builder.answer_loss_only
               /\ (builder.answer_start_id = None \/ builder.answer_end_id = None)))
    /\ pc = "error" => (options = None /\ error # "")
    /\ pc \in {"create_loss_mask", "returned", "panic"} =>
          (mask_call.answer_loss_only =>
              mask_call.answer_start_id # None /\ mask_call.answer_end_id # None)
    /\ panic \notin {"answer_start_id is None", "answer_end_id is None"}

C15_Witness ==
    /\ pc = "returned"
    /\ builder.answer_loss_only
    /\ mask_call.answer_loss_only
    /\ options = Some([answer_start_id |-> builder.answer_start_id,
                       answer_end_id |-> builder.answer_end_id,
                       answer_loss_only |-> TRUE])
    /\ \E i \in 1..Len(mask_ret.mask) : mask_ret.mask[i]

(***************************************************************************)
(* C16: in each of the three fill variants, for any assignment and pool, a *)
(* bin that asks for a length whose bucket has nothing to pop makes the    *)
(* fill fail; no pack is emitted that lacks the tokens of one of its       *)
(* bin's slots.                                                            *)
(***************************************************************************)
C16_UnderflowIsFatal ==
    pc \in {"composer", "nemo", "iterator", "done"} =>
        \A o \in FilledPacks :
            LET asked == SumSeq(assignments[o + 1])
            IN  NonPadLen(input_ids[o]) >=
                    IF return_format # "nemo" /\ asked > pack_size
                    THEN pack_size ELSE asked

(***************************************************************************)
(* C17 as stated: first_fit_decreasing returns no more bins than first_fit *)
(* returns on the same list with the same capacity.                        *)
(***************************************************************************)
C17_DecreasingNeverMoreBins ==
    (pc = "packed" /\ packing_algorithm = "FirstFitDecreasing") =>
        Len(assignments) <= Len(first_fit(seqlens, pack_size))

(***************************************************************************)
(* C17 amended: first_fit_decreasing can return more bins than first_fit   *)
(* does on the same list: for [2,2,3,2,2,3] with capacity 7 it returns 3   *)
(* bins and first_fit 2.  What holds for every list: it returns the bins   *)
(* first_fit returns when the list is already in descending order, and it  *)
(* never returns fewer bins than the total length divided by the capacity. *)
(***************************************************************************)
IsDescending(s) == \A i \in 1..(Len(s) - 1) : s[i] >= s[i + 1]

MoreBinsDecreasing == first_fit_decreasing(<<2, 2, 3, 2, 2, 3>>, 7)
MoreBinsFirstFit == first_fit(<<2, 2, 3, 2, 2, 3>>, 7)

C17_DecreasingCanUseMoreBins ==
    /\ Len(MoreBinsDecreasing) = 3
    /\ Len(MoreBinsFirstFit) = 2
    /\ (pc = "packed" /\ packing_algorithm = "FirstFitDecreasing") =>
          /\ IsDescending(seqlens) => assignments = first_fit(seqlens, pack_size)
          /\ Len(assignments) * pack_size >= SumSeq(seqlens)

C17_Witness ==
    /\ pc = "packed"
    /\ packing_algorithm = "FirstFitDecreasing"
    /\ Len(assignments) > Len(first_fit(seqlens, pack_size))

(***************************************************************************)
(* C18: the position buffer of a pack (composer and iterator) is, for each *)
(* concatenated sub-sequence of length n, the counter 0..n-1, restarting   *)
(* at every sub-sequence boundary; create_position_ids maps a sequence of  *)
(* length n to [0..n-1] ([[1,2,3],[4,5,6,7]] gives [[0,1,2],[0,1,2,3]]);   *)
(* every token sequence of the pool is paired with a position sequence of  *)
(* its length.                                                             *)
(***************************************************************************)
PositionCounter(bin) == Flatten([k \in 1..Len(bin) |-> [i \in 1..bin[k] |-> i - 1]])

C18_PositionsRestartPerSubSequence ==
    /\ create_position_ids(<<<<1, 2, 3>>, <<4, 5, 6, 7>>>>)
          = <<<<0, 1, 2>>, <<0, 1, 2, 3>>>>
    /\ \A seq_len \in DOMAIN ifile_handles :
          LET input_ids_vec == ifile_handles[seq_len][1]
              positions_ids_vec == ifile_handles[seq_len][2]
          IN  /\ Len(input_ids_vec) = Len(positions_ids_vec)
              /\ \A k \in 1..Len(input_ids_vec) :
                    /\ Len(positions_ids_vec[k]) = Len(input_ids_vec[k])
                    /\ positions_ids_vec[k] = [i \in 1..seq_len |-> i - 1]
    /\ (pc \in {"composer", "iterator"} \/ (pc \in {"done", "iterating"}
                                             /\ return_format # "nemo")) =>
          \A o \in FilledPacks :
              SubSeq(positions_ids[o], 1, SumSeq(assignments[o + 1]))
                 = PositionCounter(assignments[o + 1])

C18_Witness ==
    /\ pc = "done"
    /\ return_format = "composer"
    /\ \E o \in FilledPacks :
          /\ Len(assignments[o + 1]) = 2
          /\ assignments[o + 1][1] >= 2
          /\ assignments[o + 1][2] >= 2
          /\ positions_ids[o] = <<0, 1, 0, 1>>

(***************************************************************************)
(* C19: when the capacity bucket selected for the next length holds        *)
(* several open bins, the bin first_fit chooses is the one created first   *)
(* (the lowest bin index) among the bins with that remaining capacity.     *)
(***************************************************************************)
RemainingCapacity(bins, bin_idx) == pack_size - SumSeq(bins[bin_idx + 1])

C19_TieGoesToFirstCreatedBin ==
    (pc = "first_fit" /\ idx < Len(work)) =>
        LET bin_to_update == find_bin(capacity_map, work[idx + 1])
        IN  bin_to_update # None =>
                bin_to_update[1].bin_idx =
                    Min({b \in 0..(Len(res) - 1) :
                            RemainingCapacity(res, b) = bin_to_update[1].capacity})

(***************************************************************************)
(* C20: first_fit_decreasing returns the result of first_fit applied to    *)
(* the input lengths sorted in descending order ([1,2,3,4,5] with capacity *)
(* 5 gives [[5],[4,1],[3,2]]); the first length of each bin is             *)
(* non-increasing in bin order.                                            *)
(***************************************************************************)
test_first_fit_decreasing == first_fit_decreasing(<<1, 2, 3, 4, 5>>, 5)

C20_DecreasingIsFirstFitOnSorted ==
    /\ test_first_fit_decreasing = <<<<5>>, <<4, 1>>, <<3, 2>>>>
    /\ (pc \in {"first_fit", "packed"} /\ packing_algorithm = "FirstFitDecreasing") =>
          /\ IsDescending(work)
          /\ SeqToBag(work) = SeqToBag(seqlens)
    /\ (pc = "packed" /\ packing_algorithm = "FirstFitDecreasing") =>
          /\ assignments = first_fit(work, pack_size)
          /\ assignments = first_fit_decreasing(seqlens, pack_size)
          /\ \A b \in 1..(Len(assignments) - 1) :
                assignments[b][1] >= assignments[b + 1][1]

C20_Witness ==
    /\ pc = "packed"
    /\ packing_algorithm = "FirstFitDecreasing"
    /\ ~IsDescending(seqlens)
    /\ Len(assignments) >= 2
    /\ assignments[1][1] > assignments[2][1]

====
